---- MODULE Spec2Model ----
(***************************************************************************)
(* Credits ledger of libertai-inference: the credit_transactions table,    *)
(* CreditService (add_credits, use_credits, get_balance, voucher and       *)
(* status updates), the expiry sweeper, the Thirdweb webhook and the       *)
(* chain pollers.                                                          *)
(*                                                                         *)
(* The processes are the workers of the service, which share the database. *)
(* Every handler is an async function whose database work is synchronous,  *)
(* so a worker runs one handler at a time; handlers of different workers   *)
(* interleave.  Every handler opens its own session (SessionLocal()) on    *)
(* PostgreSQL at its default READ COMMITTED isolation, so a handler is a   *)
(* sequence of steps, one per statement that reads committed rows or       *)
(* commits.  ORM objects keep the column values they were loaded with; a   *)
(* commit writes the attributes that changed, as absolute values, and is   *)
(* refused as a whole when a constraint fails.                             *)
(*                                                                         *)
(* Amounts are floats in the program; here they are integers in a unit in  *)
(* which every amount of the model is exact.                               *)
(***************************************************************************)
EXTENDS Integers, Sequences, FiniteSets, TLC

\* ---------------------------------------------------------------- bounds
MaxTx == 2
MaxTime == 2
MaxAmount == 2
MaxBatch == 2
MaxBlock == 2

\* --------------------------------------------------------------- domains
Procs == {1, 2}
Addr == {"A", "B"}
Hashes == {"h1", "h2"}
NoHash == "none"
NullInt == -1
Times == 1..MaxTime
Amounts == 1..MaxAmount
Providers == {"libertai", "ltai_solana", "sol_solana", "thirdweb", "voucher"}
Statuses == {"pending", "completed", "error"}
Chains == {"base", "solana"}

VARIABLES users, txs, now, head, proc, hist

vars == <<users, txs, now, head, proc, hist>>

\* --------------------------------------------------------------- helpers
Min(a, b) == IF a <= b THEN a ELSE b

Max(a, b) == IF a >= b THEN a ELSE b

Ids == 1..Len(txs)

RECURSIVE SumOver(_, _)
SumOver(f, S) ==
    IF S = {} THEN 0
    ELSE LET i == CHOOSE j \in S : TRUE IN f[i] + SumOver(f, S \ {i})

\* ------------------------------------------------- credit_transactions
NoUniqueHash(rows, h) == TRUE

\* unique=True on transaction_hash: a NULL hash never conflicts
UniqueHash(rows, h) ==
    h = NoHash \/ \A i \in 1..Len(rows) : rows[i].hash # h

NoCheckConstraints(r) == TRUE

\* __table_args__: the CHECK constraints a row must pass on INSERT and UPDATE
CheckConstraints(r) ==
    /\ r.amount >= 0
    /\ r.amount_left >= 0
    /\ r.amount_left <= r.amount
    /\ \/ r.provider \in {"thirdweb", "voucher"}
       \/ r.block_number # NullInt

CreditTransaction(h, a, amt, left, prov, blk, exp, act, st) ==
    [hash |-> h, address |-> a, amount |-> amt, amount_left |-> left,
     provider |-> prov, block_number |-> blk, expired_at |-> exp,
     is_active |-> act, status |-> st]

NoHashExists(rows, h) == FALSE

\* .filter(CreditTransaction.transaction_hash == transaction_hash).first()
HashExists(rows, h) == \E i \in 1..Len(rows) : rows[i].hash = h

\* ------------------------------------------------------------ balances
EligibleNoStatus(rows, a) ==
    {i \in 1..Len(rows) : rows[i].address = a /\ rows[i].is_active}

\* the filter shared by use_credits and User.credit_balance
Eligible(rows, a) ==
    {i \in 1..Len(rows) :
        /\ rows[i].address = a
        /\ rows[i].is_active
        /\ rows[i].status = "completed"}

credit_balance(rows, a) ==
    SumOver([i \in 1..Len(rows) |-> rows[i].amount_left], Eligible(rows, a))

get_balance(us, rows, a) == IF a \notin us THEN 0 ELSE credit_balance(rows, a)

\* --------------------------------------------------------- use_credits
\* expired_at.asc().nullslast(): NULL sorts after every date
ExpKey(e) == IF e = NullInt THEN MaxTime + 10 ELSE e

Perms(S) ==
    {s \in [1..Cardinality(S) -> S] : \A i, j \in 1..Cardinality(S) : i # j => s[i] # s[j]}

OrdersUnsorted(rows, a) == Perms(Eligible(rows, a))

\* the result lists the query may return: rows with equal expired_at come
\* in an order the database chooses
Orders(rows, a) ==
    {s \in Perms(Eligible(rows, a)) :
        \A i, j \in 1..Len(s) :
            i < j => ExpKey(rows[s[i]].expired_at) <= ExpKey(rows[s[j]].expired_at)}

\* a walk that stops at the first transaction it draws from
WalkFirst(order, val, remaining, k) ==
    IF \A j \in 1..Len(order) : val[order[j]] <= 0 THEN <<val, remaining>>
    ELSE LET j == CHOOSE j \in 1..Len(order) :
                    val[order[j]] > 0 /\ \A m \in 1..(j - 1) : val[order[m]] <= 0
             u == Min(val[order[j]], remaining)
         IN <<[val EXCEPT ![order[j]] = @ - u], remaining - u>>

RECURSIVE Walk(_, _, _, _)
\* the loop of use_credits over the loaded objects: val is the objects'
\* amount_left, k the position in the list; yields <<val, remaining>>
Walk(order, val, remaining, k) ==
    IF k > Len(order) THEN <<val, remaining>>
    ELSE LET id == order[k]
             available == val[id]
         IN IF available <= 0 THEN Walk(order, val, remaining, k + 1)
            ELSE LET use_from_tx == Min(available, remaining)
                     nval == [val EXCEPT ![id] = available - use_from_tx]
                     nrem == remaining - use_from_tx
                 IN IF nrem <= 0 THEN <<nval, nrem>>
                    ELSE Walk(order, nval, nrem, k + 1)

\* UPDATEs that write every column of the loaded object, is_active as it was
\* loaded
FlushWholeRow(rows, snap, val) ==
    [i \in 1..Len(rows) |->
        IF i \in DOMAIN snap /\ val[i] # snap[i]
        THEN [rows[i] EXCEPT !.amount_left = val[i], !.is_active = TRUE]
        ELSE rows[i]]

\* the UPDATEs a commit flushes: one per loaded object whose amount_left
\* differs from the loaded value, setting the new value
Flush(rows, snap, val) ==
    [i \in 1..Len(rows) |->
        IF i \in DOMAIN snap /\ val[i] # snap[i]
        THEN [rows[i] EXCEPT !.amount_left = val[i]]
        ELSE rows[i]]

\* ---------------------------------------------------------- add_credits
NoBoost(provider, amount) == amount

\* "Apply the boost for LTAI payments"
Boost(provider, amount) ==
    IF provider = "libertai" THEN (amount * 100) \div 80 ELSE amount

\* ----------------------------------------------------- handler processes
Idle ==
    [pc |-> "idle", op |-> "none", ret |-> "none", addr |-> "A", amount |-> 0,
     hash |-> NoHash, provider |-> "voucher", block |-> NullInt, exp |-> NullInt,
     status |-> "completed", newUser |-> FALSE, order |-> <<>>, snap |-> <<>>,
     id |-> 0, ids |-> {}, val |-> 0, ctx |-> "top", hook |-> "none",
     events |-> <<>>, out |-> <<>>, last |-> "unbound", held |-> {}, cursor |-> 0]

NoHist == [on |-> FALSE, n |-> 0, bal0 |-> 0, left0 |-> 0, req |-> 0, completed |-> {}]

InFlight(p) == proc[p].pc \notin {"idle", "done"}

\* the handler returns r (or raises): its session closes, so its uncommitted
\* rows are gone
Return(p, r) ==
    [proc[p] EXCEPT !.pc = IF proc[p].ctx \in {"base", "solana"} THEN "polled" ELSE "done",
                    !.ret = r, !.newUser = FALSE, !.order = <<>>, !.snap = <<>>]

\* where a call made by caller c begins: a handler of its own starts on an
\* idle worker, the webhook and the pollers call from inside their handler
Entry(c) == IF c = "top" THEN "idle" ELSE IF c = "hook" THEN "call" ELSE "loop"

\* the locals a call starts from: a handler of its own has none, a nested
\* call keeps its caller's
Frame(p, c) == IF c = "top" THEN Idle ELSE proc[p]

Done(op, r) == [Idle EXCEPT !.pc = "done", !.op = op, !.ret = r]

Adding == {p \in Procs : proc[p].pc \in {"add_flush", "add_check", "add_commit"}}

Init ==
    /\ users = {}
    /\ txs = <<>>
    /\ now = 0
    /\ head = [c \in Chains |-> 0]
    /\ proc = [p \in Procs |-> Idle]
    /\ hist = NoHist

\* ------------------------------------------------ CreditService.add_credits
\* lines 40-52: boost, open the session, look the user up.  c is the caller
\* ("top" for a direct call)
AddStart(p, c, prov, a, amt, h, blk, exp, st) ==
    /\ proc[p].pc = Entry(c)
    /\ proc[p].ctx = c
    /\ proc' = [proc EXCEPT ![p] =
                  [Frame(p, c) EXCEPT !.pc = IF a \in users THEN "add_check" ELSE "add_flush",
                               !.op = "add", !.ctx = c, !.provider = prov, !.addr = a,
                               !.amount = Boost(prov, amt), !.hash = h, !.block = blk,
                               !.exp = exp, !.status = st]]
    /\ UNCHANGED <<users, txs, now, head>>

\* lines 53-56: INSERT the user and flush.  The insert waits while another
\* session holds an uncommitted row with the same key and fails when the key
\* is committed
AddFlush(p) ==
    /\ proc[p].pc = "add_flush"
    /\ \A q \in Procs \ {p} : ~(proc[q].newUser /\ proc[q].addr = proc[p].addr)
    /\ proc' = [proc EXCEPT ![p] =
                  IF proc[p].addr \in users THEN Return(p, "raise")
                  ELSE [proc[p] EXCEPT !.pc = "add_check", !.newUser = TRUE]]
    /\ UNCHANGED <<users, txs, now, head>>

\* a guard that looks up the hash of a call made without one
AddCheckWithoutHash(p) ==
    /\ proc[p].pc = "add_check"
    /\ proc' = [proc EXCEPT ![p] =
                  IF HashExists(txs, proc[p].hash)
                  THEN Return(p, "False")
                  ELSE [proc[p] EXCEPT !.pc = "add_commit"]]
    /\ UNCHANGED <<users, txs, now, head>>

\* lines 58-67: the duplicate-hash guard
AddCheck(p) ==
    /\ proc[p].pc = "add_check"
    /\ proc' = [proc EXCEPT ![p] =
                  IF proc[p].hash # NoHash /\ HashExists(txs, proc[p].hash)
                  THEN Return(p, "False")
                  ELSE [proc[p] EXCEPT !.pc = "add_commit"]]
    /\ UNCHANGED <<users, txs, now, head>>

\* a commit that, when the INSERT of the transaction is refused, keeps the
\* user it flushed
AddCommitKeepsUser(p) ==
    /\ proc[p].pc = "add_commit"
    /\ LET me == proc[p]
           row == CreditTransaction(me.hash, me.addr, me.amount, me.amount,
                                    me.provider, me.block, me.exp, TRUE, me.status)
           ok == /\ CheckConstraints(row)
                 /\ UniqueHash(txs, me.hash)
                 /\ (me.addr \in users \/ me.newUser)
       IN IF ok
          THEN /\ txs' = Append(txs, row)
               /\ users' = users \cup {me.addr}
               /\ proc' = [proc EXCEPT ![p] = Return(p, "True")]
          ELSE /\ txs' = txs
               /\ users' = users \cup {me.addr}
               /\ proc' = [proc EXCEPT ![p] = Return(p, "raise")]
    /\ UNCHANGED <<now, head>>

\* lines 69-86: build the row, INSERT and commit; a refused INSERT rolls the
\* session back (the new user included) and the exception is raised again
AddCommit(p) ==
    /\ proc[p].pc = "add_commit"
    /\ LET me == proc[p]
           row == CreditTransaction(me.hash, me.addr, me.amount, me.amount,
                                    me.provider, me.block, me.exp, TRUE, me.status)
           ok == /\ CheckConstraints(row)
                 /\ UniqueHash(txs, me.hash)
                 /\ (me.addr \in users \/ me.newUser)
       IN IF ok
          THEN /\ txs' = Append(txs, row)
               /\ users' = users \cup {me.addr}
               /\ proc' = [proc EXCEPT ![p] = Return(p, "True")]
          ELSE /\ UNCHANGED <<users, txs>>
               /\ proc' = [proc EXCEPT ![p] = Return(p, "raise")]
    /\ UNCHANGED <<now, head>>

\* ------------------------------------------------ CreditService.use_credits
\* lines 104-116: load the eligible transactions in expiry order
UseRead(p, a, x) ==
    /\ proc[p].pc = "idle"
    /\ \E ord \in Orders(txs, a) :
         proc' = [proc EXCEPT ![p] =
                    [Idle EXCEPT !.pc = "use_commit", !.op = "use", !.addr = a,
                                 !.amount = x, !.order = ord,
                                 !.snap = [i \in Eligible(txs, a) |-> txs[i].amount_left]]]
    /\ UNCHANGED <<users, txs, now, head>>

\* lines 118-144: walk the loaded objects and commit
UseCommit(p) ==
    /\ proc[p].pc = "use_commit"
    /\ LET me == proc[p]
           w == Walk(me.order, me.snap, me.amount, 1)
           new == Flush(txs, me.snap, w[1])
       IN IF \A i \in 1..Len(new) : CheckConstraints(new[i])
          THEN /\ txs' = new
               /\ proc' = [proc EXCEPT ![p] = [Return(p, "True") EXCEPT !.val = w[2]]]
          ELSE /\ txs' = txs
               /\ proc' = [proc EXCEPT ![p] = Return(p, "raise")]
    /\ UNCHANGED <<users, now, head>>

\* ------------------------------------------------ CreditService.get_balance
\* lines 159-163: the user lookup
BalanceUser(p, a) ==
    /\ proc[p].pc = "idle"
    /\ proc' = [proc EXCEPT ![p] =
                  IF a \in users
                  THEN [Idle EXCEPT !.pc = "balance_sum", !.op = "balance", !.addr = a]
                  ELSE [Done("balance", "value") EXCEPT !.addr = a, !.val = 0]]
    /\ UNCHANGED <<users, txs, now, head>>

\* line 165, User.credit_balance: a second session sums the eligible rows
BalanceSum(p) ==
    /\ proc[p].pc = "balance_sum"
    /\ proc' = [proc EXCEPT ![p] =
                  [Return(p, "value") EXCEPT !.val = credit_balance(txs, proc[p].addr)]]
    /\ UNCHANGED <<users, txs, now, head>>

\* ------------------------------------- CreditService.update_transaction_status
\* lines 249-256: look the transaction up by hash
StatusRead(p, c, h, st) ==
    /\ proc[p].pc = Entry(c)
    /\ proc[p].ctx = c
    /\ proc' = [proc EXCEPT ![p] =
                  IF HashExists(txs, h)
                  THEN [Frame(p, c) EXCEPT !.pc = "status_commit", !.op = "status",
                                           !.hash = h, !.status = st,
                                           !.id = CHOOSE i \in Ids : txs[i].hash = h]
                  ELSE [Frame(p, c) EXCEPT !.pc = "done", !.op = "status", !.ret = "False",
                                           !.hash = h, !.status = st]]
    /\ UNCHANGED <<users, txs, now, head>>

\* a commit that also gives the transaction its credits back
StatusCommitRestores(p) ==
    /\ proc[p].pc = "status_commit"
    /\ txs' = [txs EXCEPT ![proc[p].id].status = proc[p].status,
                          ![proc[p].id].amount_left = txs[proc[p].id].amount]
    /\ proc' = [proc EXCEPT ![p] = Return(p, "True")]
    /\ UNCHANGED <<users, now, head>>

\* lines 258-261: set the status and commit
StatusCommit(p) ==
    /\ proc[p].pc = "status_commit"
    /\ txs' = [txs EXCEPT ![proc[p].id].status = proc[p].status]
    /\ proc' = [proc EXCEPT ![p] = Return(p, "True")]
    /\ UNCHANGED <<users, now, head>>

\* -------------------------------- CreditService.change_voucher_expiration_date
\* a lookup by id among the active transactions of any provider
VoucherReadAnyProvider(p, vid, exp) ==
    /\ proc[p].pc = "idle"
    /\ proc' = [proc EXCEPT ![p] =
                  IF vid \in Ids /\ txs[vid].is_active
                  THEN [Idle EXCEPT !.pc = "voucher_commit", !.op = "voucher",
                                    !.id = vid, !.exp = exp]
                  ELSE [Done("voucher", "False") EXCEPT !.id = vid, !.exp = exp]]
    /\ UNCHANGED <<users, txs, now, head>>

\* lines 213-226: find the active voucher by id
VoucherRead(p, vid, exp) ==
    /\ proc[p].pc = "idle"
    /\ proc' = [proc EXCEPT ![p] =
                  IF vid \in Ids /\ txs[vid].is_active /\ txs[vid].provider = "voucher"
                  THEN [Idle EXCEPT !.pc = "voucher_commit", !.op = "voucher",
                                    !.id = vid, !.exp = exp]
                  ELSE [Done("voucher", "False") EXCEPT !.id = vid, !.exp = exp]]
    /\ UNCHANGED <<users, txs, now, head>>

\* lines 228-230: set expired_at and commit
VoucherCommit(p) ==
    /\ proc[p].pc = "voucher_commit"
    /\ txs' = [txs EXCEPT ![proc[p].id].expired_at = proc[p].exp]
    /\ proc' = [proc EXCEPT ![p] = Return(p, "True")]
    /\ UNCHANGED <<users, now, head>>

\* ------------------------------------- update_expired_credit_transactions
ExpiredOrDue(rows, t) ==
    {i \in 1..Len(rows) :
        /\ rows[i].is_active
        /\ rows[i].expired_at # NullInt
        /\ rows[i].expired_at <= t}

Expired(rows, t) ==
    {i \in 1..Len(rows) :
        /\ rows[i].is_active
        /\ rows[i].expired_at # NullInt
        /\ rows[i].expired_at < t}

\* lines 33-46: find the active transactions whose expiration has passed
SweepRead(p) ==
    /\ proc[p].pc = "idle"
    /\ proc' = [proc EXCEPT ![p] =
                  IF Expired(txs, now) = {}
                  THEN Done("sweep", "True")
                  ELSE [Idle EXCEPT !.pc = "sweep_commit", !.op = "sweep",
                                    !.ids = Expired(txs, now)]]
    /\ UNCHANGED <<users, txs, now, head>>

\* a sweep that also empties the transactions it deactivates
SweepCommitClearsLeft(p) ==
    /\ proc[p].pc = "sweep_commit"
    /\ txs' = [i \in Ids |-> IF i \in proc[p].ids
                             THEN [txs[i] EXCEPT !.is_active = FALSE, !.amount_left = 0]
                             ELSE txs[i]]
    /\ proc' = [proc EXCEPT ![p] = [Return(p, "True") EXCEPT !.val = Cardinality(proc[p].ids)]]
    /\ UNCHANGED <<users, now, head>>

\* lines 48-63: deactivate them and commit
SweepCommit(p) ==
    /\ proc[p].pc = "sweep_commit"
    /\ txs' = [i \in Ids |-> IF i \in proc[p].ids
                             THEN [txs[i] EXCEPT !.is_active = FALSE] ELSE txs[i]]
    /\ proc' = [proc EXCEPT ![p] = [Return(p, "True") EXCEPT !.val = Cardinality(proc[p].ids)]]
    /\ UNCHANGED <<users, now, head>>

\* the wall clock read by datetime.now()
Tick ==
    /\ now < MaxTime
    /\ now' = now + 1
    /\ UNCHANGED <<users, txs, head, proc>>

\* ------------------------------------------------------- thirdweb_webhook
MAX_WEBHOOK_AGE == 300

FutureTolerance == 30

BaseChainId == 8453

\* the timestamps a delivery can carry, relative to the receiver's clock:
\* none, not a number, or the age in seconds (negative: in the future)
Stamps == {[kind |-> "missing", age |-> 0], [kind |-> "text", age |-> 0]} \cup
          [kind : {"number"},
           age : {MAX_WEBHOOK_AGE + 1, MAX_WEBHOOK_AGE, 0, -FutureTolerance, -FutureTolerance - 1}]

Signatures == {"missing", "wrong", "valid"}

VerifiedWithoutFutureCheck(w) ==
    /\ w.signature # "missing"
    /\ w.timestamp.kind = "number"
    /\ ~(w.timestamp.age > MAX_WEBHOOK_AGE)
    /\ w.signature = "valid"

\* lines 70-112: the signature and timestamp checks that answer 401
Verified(w) ==
    /\ w.signature # "missing"
    /\ w.timestamp.kind = "number"
    /\ ~(w.timestamp.age > MAX_WEBHOOK_AGE)
    /\ ~(-w.timestamp.age > FutureTolerance)
    /\ w.signature = "valid"

\* filters that take any destination token on Base
AcceptedAnyToken(w) ==
    /\ w.type = "pay.onchain-transaction"
    /\ w.receiver = "processor"
    /\ w.txChain = BaseChainId
    /\ w.tokenChain = BaseChainId

\* lines 116-149: the deliveries the handler acts on
Accepted(w) ==
    /\ w.type = "pay.onchain-transaction"
    /\ w.receiver = "processor"
    /\ w.txChain = BaseChainId
    /\ w.symbol = "USDC"
    /\ w.tokenChain = BaseChainId

\* the payment a transaction hash stands for: purchaseData.userAddress and
\* destinationAmount / 10**decimals
HookSender(h) == "A"

HookAmount(h) == IF h = "h1" THEN MaxAmount ELSE 1

Payloads ==
    [signature : Signatures, timestamp : Stamps,
     type : {"pay.onchain-transaction", "pay.onramp-transaction"},
     receiver : {"processor", "other"}, txChain : {BaseChainId, 1},
     symbol : {"USDC", "ETH"}, tokenChain : {BaseChainId, 1},
     hash : Hashes, status : {"COMPLETED", "PENDING"}]

\* a signed, fresh USDC-on-Base payment to the processor
Sound(w) ==
    [w EXCEPT !.signature = "valid", !.timestamp = [kind |-> "number", age |-> 0],
              !.type = "pay.onchain-transaction", !.receiver = "processor",
              !.txChain = BaseChainId, !.symbol = "USDC", !.tokenChain = BaseChainId]

\* the payloads that differ from w in at most one header or field
OneWrong(w) ==
    {w} \cup {[w EXCEPT !.signature = x] : x \in Signatures}
        \cup {[w EXCEPT !.timestamp = x] : x \in Stamps}
        \cup {[w EXCEPT !.type = "pay.onramp-transaction"], [w EXCEPT !.receiver = "other"],
              [w EXCEPT !.txChain = 1], [w EXCEPT !.symbol = "ETH"],
              [w EXCEPT !.tokenChain = 1]}

\* the deliveries sent: sound ones and those with one thing wrong
Deliveries ==
    UNION {OneWrong(Sound([signature |-> "valid", timestamp |-> [kind |-> "number", age |-> 0],
                           type |-> "pay.onchain-transaction", receiver |-> "processor",
                           txChain |-> BaseChainId, symbol |-> "USDC",
                           tokenChain |-> BaseChainId, hash |-> h, status |-> st]))
             : h \in Hashes, st \in {"COMPLETED", "PENDING"}}

\* lines 157-160: the ledger status a provider status maps to
TxStatus(s) == IF s = "COMPLETED" THEN "completed" ELSE "pending"

\* lines 70-160: verify, filter, look the hash up in a session of its own
HookStart(p, w) ==
    /\ proc[p].pc = "idle"
    /\ proc' = [proc EXCEPT ![p] =
                  IF ~Verified(w) THEN Done("hook", "401")
                  ELSE IF ~Accepted(w) THEN Done("hook", "ignored")
                  ELSE [Idle EXCEPT !.pc = "call", !.op = "hook", !.ctx = "hook",
                                    !.hash = w.hash, !.hook = w.status,
                                    !.addr = HookSender(w.hash),
                                    !.amount = HookAmount(w.hash),
                                    !.status = TxStatus(w.status),
                                    !.id = IF HashExists(txs, w.hash)
                                           THEN CHOOSE i \in Ids : txs[i].hash = w.hash
                                           ELSE 0]]
    /\ UNCHANGED <<users, txs, now, head>>

\* a handler that gives an existing transaction the status of the delivery
HookCallDeliveredStatus(p) ==
    /\ proc[p].ctx = "hook"
    /\ IF proc[p].id # 0
       THEN StatusRead(p, "hook", proc[p].hash, proc[p].status)
       ELSE AddStart(p, "hook", "thirdweb", proc[p].addr, proc[p].amount, proc[p].hash,
                     NullInt, NullInt, proc[p].status)

\* lines 162-175: an existing transaction gets update_transaction_status, a
\* new hash add_credits; what the call returns or raises ends the handler
HookCall(p) ==
    /\ proc[p].ctx = "hook"
    /\ IF proc[p].id # 0
       THEN StatusRead(p, "hook", proc[p].hash, "completed")
       ELSE AddStart(p, "hook", "thirdweb", proc[p].addr, proc[p].amount, proc[p].hash,
                     NullInt, NullInt, proc[p].status)

\* ------------------------------------------------------------ the chains
\* The PaymentProcessed events of the Base contract and the signatures of the
\* Solana program, oldest first.  value is the USD value of the payment at the
\* token price of the poll.
BaseLog ==
    <<[hash |-> "b1", sender |-> "A", value |-> 4, block |-> 1],
      [hash |-> "b2", sender |-> "B", value |-> 1, block |-> 2]>>

SolanaLog ==
    <<[hash |-> "s1", user |-> "A", value |-> 1, slot |-> 1,
       event_type |-> "token_payment", err |-> FALSE],
      [hash |-> "s2", user |-> "B", value |-> 2, slot |-> 2,
       event_type |-> "sol_payment", err |-> TRUE]>>

\* a block is produced
Mine(c) ==
    /\ head[c] < MaxBlock
    /\ head' = [head EXCEPT ![c] = @ + 1]
    /\ UNCHANGED <<users, txs, now, proc>>

\* ORDER BY block_number DESC LIMIT 1 over the transactions of the providers,
\* 0 when there is none
LastBlock(rows, provs) ==
    LET S == {rows[i].block_number : i \in {j \in 1..Len(rows) : rows[j].provider \in provs}}
    IN IF S = {} THEN 0 ELSE CHOOSE b \in S : \A c \in S : c <= b

\* the handler goes on with the next event, or returns the processed hashes
Loop(me) ==
    IF me.events = <<>>
    THEN [Idle EXCEPT !.pc = "done", !.op = me.ctx, !.ret = "ok", !.out = me.out]
    ELSE [me EXCEPT !.pc = "loop"]

\* The payment locks are asyncio locks of the worker's event loop.  A worker
\* runs one handler at a time and a handler that holds a lock makes blocking
\* calls only, so the locks of worker p that are held are those its running
\* handler holds.
Locked(p, c) == c \in proc[p].held

\* ------------------------------------------- process_base_ltai_transactions
Margin == 1000

\* a poll that starts right after the last stored block whatever the head is
BaseStartFromCursor(p, ok) ==
    /\ proc[p].pc = "idle"
    /\ LET last_block_number == LastBlock(txs, {"libertai"})
           start_block == last_block_number + 1
           events == SelectSeq(BaseLog, LAMBDA e : start_block <= e.block
                                                   /\ e.block <= head["base"])
       IN proc' = [proc EXCEPT ![p] =
                     IF Locked(p, "base") THEN Done("base", "ok")
                     ELSE IF ok
                     THEN Loop([Idle EXCEPT !.op = "base", !.ctx = "base", !.events = events,
                                            !.cursor = last_block_number, !.held = {}])
                     ELSE Done("base", "500")]
    /\ UNCHANGED <<users, txs, now, head>>

\* lines 33-59: the test of the Base lock, the last stored block, then under
\* the lock the window and the events in it; an RPC error answers 500.  The
\* lock is released at the end of line 58, before the events are handled,
\* so the handler holds none afterwards
BaseStart(p, ok) ==
    /\ proc[p].pc = "idle"
    /\ LET last_block_number == LastBlock(txs, {"libertai"})
           start_block == Max(head["base"] - Margin, last_block_number + 1)
           events == SelectSeq(BaseLog, LAMBDA e : start_block <= e.block
                                                   /\ e.block <= head["base"])
       IN proc' = [proc EXCEPT ![p] =
                     IF Locked(p, "base") THEN Done("base", "ok")
                     ELSE IF ok
                     THEN Loop([Idle EXCEPT !.op = "base", !.ctx = "base", !.events = events,
                                            !.cursor = last_block_number, !.held = {}])
                     ELSE Done("base", "500")]
    /\ UNCHANGED <<users, txs, now, head>>

\* lines 62-65 without the value of handle_payment_event: the hash appended is
\* the one of the event before, and there is none to append at the first event
Stale(me) ==
    IF me.last = "unbound" THEN Done("base", "500")
    ELSE Loop([me EXCEPT !.events = Tail(@), !.out = Append(@, me.last)])

\* lines 61-63, 98-105: handle_payment_event up to its call of add_credits;
\* the price request can fail
BaseEvent(p, ok) ==
    /\ proc[p].pc = "loop"
    /\ proc[p].ctx = "base"
    /\ LET e == Head(proc[p].events)
       IN IF ok
          THEN AddStart(p, "base", "libertai", e.sender, e.value, e.hash, e.block,
                        NullInt, "completed")
          ELSE /\ proc' = [proc EXCEPT ![p] = Stale(proc[p])]
               /\ UNCHANGED <<users, txs, now, head>>

\* lines 62-65, 106: add_credits has returned or raised
BasePolled(p) ==
    /\ proc[p].pc = "polled"
    /\ proc[p].ctx = "base"
    /\ proc' = [proc EXCEPT ![p] =
                  IF proc[p].ret = "raise" THEN Stale(proc[p])
                  ELSE Loop([proc[p] EXCEPT !.events = Tail(@), !.last = proc[p].hash,
                                            !.out = Append(@, proc[p].hash)])]
    /\ UNCHANGED <<users, txs, now, head>>

\* ------------------------------------------- SolanaService.poll_transactions
SolanaProviders == {"ltai_solana", "sol_solana"}

SignatureLimit == 50

\* the node's answer: the signatures of the program on the chain, the newest
\* first, at most limit of them
get_signatures_for_address(limit) ==
    LET onchain == SelectSeq(SolanaLog, LAMBDA e : e.slot <= head["solana"])
        n == Len(onchain)
    IN [i \in 1..Min(n, limit) |-> onchain[n + 1 - i]]

\* a loop over the new transactions in the order of the node's answer
NotReversed(s) == s

\* reversed(new_transactions)
Reversed(s) == [i \in 1..Len(s) |-> s[Len(s) + 1 - i]]

\* the log line of the except clause of poll_transactions, after which the
\* signatures processed so far are returned
PollingError == "Polling error"

\* lines 104-138: the last stored slot, the recent signatures without those
\* stored or not after that slot, then the prices; a failed request ends the
\* poll with nothing processed
poll_transactions(ok) ==
    LET last_processed_slot == LastBlock(txs, SolanaProviders)
        signatures == get_signatures_for_address(SignatureLimit)
        existing_tx(e) == \E i \in Ids : /\ txs[i].hash = e.hash
                                         /\ txs[i].provider \in SolanaProviders
        new_transactions ==
            SelectSeq(signatures,
                      LAMBDA e : /\ ~existing_tx(e)
                                 /\ ~(last_processed_slot # 0 /\ e.slot <= last_processed_slot))
    IN IF ok \/ new_transactions = <<>>
       THEN Loop([Idle EXCEPT !.op = "solana", !.ctx = "solana",
                              !.cursor = last_processed_slot,
                              !.events = Reversed(new_transactions)])
       ELSE Done("solana", PollingError)

\* process_solana_ltai_transactions: the Solana lock is tested, then the
\* poll runs under the Base lock, which is held until the poll returns
SolanaStart(p, ok) ==
    /\ proc[p].pc = "idle"
    /\ LET me == poll_transactions(ok)
       IN proc' = [proc EXCEPT ![p] =
                     IF Locked(p, "solana") THEN Done("solana", "ok")
                     ELSE IF me.pc = "done" THEN me
                     ELSE [me EXCEPT !.held = {"base"}]]
    /\ UNCHANGED <<users, txs, now, head>>

\* the answers of the node to get_transaction: the transaction, nothing, or
\* an error
Answers == {"value", "none", "raise"}

\* lines 140-154, 160-190: get_transaction and _process_transaction up to its
\* call of add_credits; a transaction the node does not return is passed
\* over, a request that raises ends the poll with the signatures processed
\* so far
SolanaEvent(p, rpc) ==
    /\ proc[p].pc = "loop"
    /\ proc[p].ctx = "solana"
    /\ LET e == Head(proc[p].events)
       IN CASE rpc = "value" ->
                 AddStart(p, "solana",
                          IF e.event_type = "token_payment" THEN "ltai_solana" ELSE "sol_solana",
                          e.user, e.value, e.hash, e.slot, NullInt,
                          IF e.err THEN "error" ELSE "completed")
            [] rpc = "none" ->
                 /\ proc' = [proc EXCEPT ![p] = Loop([proc[p] EXCEPT !.events = Tail(@)])]
                 /\ UNCHANGED <<users, txs, now, head>>
            [] rpc = "raise" ->
                 /\ proc' = [proc EXCEPT ![p] =
                               [Done("solana", PollingError) EXCEPT !.out = proc[p].out]]
                 /\ UNCHANGED <<users, txs, now, head>>

\* lines 148-149, 192-194: whatever add_credits did, the signature is processed
SolanaPolled(p) ==
    /\ proc[p].pc = "polled"
    /\ proc[p].ctx = "solana"
    /\ proc' = [proc EXCEPT ![p] =
                  Loop([proc[p] EXCEPT !.events = Tail(@), !.out = Append(@, proc[p].hash)])]
    /\ UNCHANGED <<users, txs, now, head>>

\* the response is delivered and the worker is free for the next request
Finish(p) ==
    /\ proc[p].pc = "done"
    /\ proc' = [proc EXCEPT ![p] = Idle]
    /\ UNCHANGED <<users, txs, now, head>>

\* --------------------------------------------------------- specifications
Expiries == {NullInt} \cup Times

\* the ledger of the model holds at most MaxTx transactions funded on request
Room == Len(txs) + Cardinality(Adding) < MaxTx

\* Funding and debits, one handler at a time: vouchers with and without an
\* expiration, hashed payments that start pending or completed, debits of
\* every size around the balance
IsoStart(p) ==
    \/ \E e \in Expiries :
         Room /\ AddStart(p, "top", "voucher", "A", MaxAmount, NoHash, NullInt, e, "completed")
    \/ \E a \in Addr, st \in {"pending", "completed"} :
         Room /\ AddStart(p, "top", "thirdweb", a, 1, "h1", NullInt, NullInt, st)
    \/ \E a \in Addr : AddStart(p, "top", "voucher", a, -1, NoHash, NullInt, NullInt, "completed")
    \/ \E a \in Addr, x \in 0..(MaxAmount + 1) : UseRead(p, a, x)
    \/ \E a \in Addr : BalanceUser(p, a)

NextIso ==
    /\ \/ IsoStart(1)
       \/ AddFlush(1) \/ AddCheck(1) \/ AddCommit(1)
       \/ UseCommit(1) \/ BalanceSum(1) \/ Finish(1)
    /\ UNCHANGED hist

SpecIso == Init /\ [][NextIso]_vars

\* Every operation of the service and the sweeper on one account: process 1
\* serves funding, status and voucher requests and the sweeper job, process 2
\* serves the metering requests, and their steps interleave
Funding(p) ==
    \/ \E e \in {NullInt, 1} :
         Room /\ AddStart(p, "top", "voucher", "A", 2, NoHash, NullInt, e, "completed")
    \/ Room /\ AddStart(p, "top", "thirdweb", "A", 1, "h1", NullInt, NullInt, "pending")
    \/ \E st \in {"completed", "error"} : StatusRead(p, "top", "h1", st)
    \/ \E vid \in 1..MaxTx : VoucherRead(p, vid, 1)
    \/ SweepRead(p)
    \/ AddFlush(p) \/ AddCheck(p) \/ AddCommit(p)
    \/ StatusCommit(p) \/ VoucherCommit(p) \/ SweepCommit(p)
    \/ Finish(p)

Metering(p) ==
    \/ \E x \in {-1, 1} : UseRead(p, "A", x)
    \/ UseRead(p, "B", 1)
    \/ \E a \in Addr : BalanceUser(p, a)
    \/ UseCommit(p) \/ BalanceSum(p)
    \/ Finish(p)

Next == (Funding(1) \/ Metering(2) \/ Tick) /\ UNCHANGED hist

Spec == Init /\ [][Next]_vars

\* The sweeper job among the requests it can overlap: process 1 issues
\* expiring vouchers and pending payments for one account, completes the
\* payments, moves voucher expirations to the latest date and runs the
\* sweeper; process 2 debits the account; the clock advances
Upkeep(p) ==
    \/ Room /\ AddStart(p, "top", "voucher", "A", 2, NoHash, NullInt, 1, "completed")
    \/ Room /\ AddStart(p, "top", "thirdweb", "A", 1, "h1", NullInt, NullInt, "pending")
    \/ StatusRead(p, "top", "h1", "completed")
    \/ \E vid \in 1..MaxTx : VoucherRead(p, vid, MaxTime)
    \/ SweepRead(p)
    \/ AddFlush(p) \/ AddCheck(p) \/ AddCommit(p)
    \/ StatusCommit(p) \/ VoucherCommit(p) \/ SweepCommit(p)
    \/ Finish(p)

Debits(p) == UseRead(p, "A", 1) \/ UseCommit(p) \/ Finish(p)

NextSweep == (Upkeep(1) \/ Debits(2) \/ Tick) /\ UNCHANGED hist

SpecSweep == Init /\ [][NextSweep]_vars

\* Debits of one account racing: both processes serve metering requests for
\* address A while vouchers fund it.  hist records a batch of overlapping
\* debits: the balance and the total amount_left when the batch began and the
\* sum of the amounts requested, for at most MaxBatch debits a batch; funding
\* that commits meanwhile ends the record
UsesInFlight == {p \in Procs : proc[p].pc = "use_commit"}

HistJoin(x) ==
    IF UsesInFlight = {}
    THEN [hist EXCEPT
          !.on = TRUE,
          !.n = 1,
          !.bal0 = credit_balance(txs, "A"),
          !.left0 = SumOver([i \in Ids |-> txs[i].amount_left], Ids),
          !.req = x]
    ELSE IF hist.on THEN [hist EXCEPT !.n = @ + 1, !.req = @ + x] ELSE hist

NextDebit ==
    \/ \E p \in Procs, x \in {1, MaxAmount + 1} :
         /\ UsesInFlight = {} \/ hist.n < MaxBatch
         /\ UseRead(p, "A", x)
         /\ hist' = HistJoin(x)
    \/ \E p \in Procs : UseCommit(p) /\ UNCHANGED hist
    \/ \E p \in Procs : Finish(p) /\ UNCHANGED hist
    \/ /\ \/ Room /\ AddStart(1, "top", "voucher", "A", MaxAmount, NoHash, NullInt, NullInt,
                                "completed")
          \/ AddFlush(1) \/ AddCheck(1) \/ AddCommit(1)
       /\ hist' = IF txs' # txs THEN NoHist ELSE hist

SpecDebit == Init /\ [][NextDebit]_vars

\* Webhook deliveries for two payments arriving at both workers, in any order
\* of statuses; hist.completed records the hashes for which a delivery with
\* status COMPLETED was verified and accepted
NextHook ==
    \/ \E p \in Procs, w \in Deliveries :
         /\ HookStart(p, w)
         /\ hist' = IF Verified(w) /\ Accepted(w) /\ w.status = "COMPLETED"
                    THEN [hist EXCEPT !.completed = @ \cup {w.hash}] ELSE hist
    \/ /\ \E p \in Procs :
            \/ HookCall(p)
            \/ AddFlush(p) \/ AddCheck(p) \/ AddCommit(p)
            \/ StatusCommit(p)
            \/ Finish(p)
       /\ UNCHANGED hist

SpecHook == Init /\ [][NextHook]_vars

\* The scheduled jobs of both workers poll both chains while blocks are made
NextPoll ==
    /\ \/ \E p \in Procs :
            \/ \E ok \in BOOLEAN : BaseStart(p, ok) \/ BaseEvent(p, ok)
            \/ BasePolled(p)
            \/ \E ok \in BOOLEAN : SolanaStart(p, ok)
            \/ \E rpc \in Answers : SolanaEvent(p, rpc)
            \/ SolanaPolled(p)
            \/ AddFlush(p) \/ AddCheck(p) \/ AddCommit(p)
            \/ Finish(p)
       \/ \E c \in Chains : Mine(c)
    /\ UNCHANGED hist

SpecPoll == Init /\ [][NextPoll]_vars

\* The Base job of both workers when the service comes up late: the chain
\* head is Margin blocks or a few more past the first blocks of the contract
\* log, and the ledger is empty
InitLate ==
    /\ users = {}
    /\ txs = <<>>
    /\ now = 0
    /\ head \in {[c \in Chains |-> IF c = "base" THEN Margin + k ELSE 0] : k \in 0..(MaxBlock + 1)}
    /\ proc = [p \in Procs |-> Idle]
    /\ hist = NoHist

NextLate ==
    /\ \E p \in Procs :
         \/ \E ok \in BOOLEAN : BaseStart(p, ok) \/ BaseEvent(p, ok)
         \/ BasePolled(p)
         \/ AddFlush(p) \/ AddCheck(p) \/ AddCommit(p)
         \/ Finish(p)
    /\ UNCHANGED hist

SpecLate == InitLate /\ [][NextLate]_vars

\* The Solana job of process 1 while process 2 serves the metering and
\* balance requests of the user whose payment failed on the chain
NextFailed ==
    /\ \/ \E ok \in BOOLEAN : SolanaStart(1, ok)
       \/ \E rpc \in Answers : SolanaEvent(1, rpc)
       \/ SolanaPolled(1)
       \/ AddFlush(1) \/ AddCheck(1) \/ AddCommit(1)
       \/ \E x \in Amounts : UseRead(2, "B", x)
       \/ UseCommit(2)
       \/ BalanceUser(2, "B") \/ BalanceSum(2)
       \/ \E p \in Procs : Finish(p)
       \/ Mine("solana")
    /\ UNCHANGED hist

SpecFailed == Init /\ [][NextFailed]_vars

\* The scheduled jobs of one worker under the scheduling the program relies
\* on: both jobs keep being run, a handler that has started goes on, blocks
\* keep being made, and a request to a node or to the price service that
\* fails does not fail forever
NextPollLive ==
    /\ \/ \E ok \in BOOLEAN : BaseStart(1, ok) \/ BaseEvent(1, ok)
       \/ BasePolled(1)
       \/ \E ok \in BOOLEAN : SolanaStart(1, ok)
       \/ \E rpc \in Answers : SolanaEvent(1, rpc)
       \/ SolanaPolled(1)
       \/ AddFlush(1) \/ AddCheck(1) \/ AddCommit(1)
       \/ Finish(1)
       \/ \E c \in Chains : Mine(c)
    /\ UNCHANGED hist

SpecPollLive ==
    /\ Init /\ [][NextPollLive]_vars
    /\ SF_vars(BaseStart(1, TRUE) /\ UNCHANGED hist)
    /\ SF_vars(SolanaStart(1, TRUE) /\ UNCHANGED hist)
    /\ SF_vars(BaseEvent(1, TRUE) /\ UNCHANGED hist)
    /\ SF_vars(SolanaEvent(1, "value") /\ UNCHANGED hist)
    /\ WF_vars((BasePolled(1) \/ SolanaPolled(1)) /\ UNCHANGED hist)
    /\ WF_vars((AddFlush(1) \/ AddCheck(1) \/ AddCommit(1)) /\ UNCHANGED hist)
    /\ WF_vars(Finish(1) /\ UNCHANGED hist)
    /\ WF_vars((\E c \in Chains : Mine(c)) /\ UNCHANGED hist)

\* ----------------------------------------------------------------- claims
\* process p's call of op returns in this step
Returns(p, op) == proc[p].pc # "done" /\ proc'[p].pc = "done" /\ proc'[p].op = op

Earlier(rows, j, i) ==
    /\ rows[j].expired_at # NullInt
    /\ (rows[i].expired_at = NullInt \/ rows[j].expired_at < rows[i].expired_at)

Usable(rows, a, k) ==
    rows[k].address = a /\ rows[k].is_active = TRUE /\ rows[k].status = "completed"

RECURSIVE LedgerSum(_, _, _)
\* the sum of amount_left over the first k rows that are a's, active and completed
LedgerSum(rows, a, k) ==
    IF k = 0 THEN 0
    ELSE (IF Usable(rows, a, k) THEN rows[k].amount_left ELSE 0) + LedgerSum(rows, a, k - 1)

Balance(rows, a) == LedgerSum(rows, a, Len(rows))

RECURSIVE TotalLeft(_, _, _)
\* the sum of amount_left over the first k rows that are a's
TotalLeft(rows, a, k) ==
    IF k = 0 THEN 0
    ELSE (IF rows[k].address = a THEN rows[k].amount_left ELSE 0) + TotalLeft(rows, a, k - 1)

\* C1: when the overlapping use_credits calls of a batch for one address have
\* all committed, the total amount_left of the address has gone down by
\* min(sum of the requested amounts, balance before the batch).
C1_NoLostDebit ==
    (hist.on /\ UsesInFlight = {})
    => hist.left0 - TotalLeft(txs, "A", Len(txs)) =
         (IF hist.req <= hist.bal0 THEN hist.req ELSE hist.bal0)

\* C2: in every reachable state every stored transaction satisfies
\* 0 <= amount_left <= amount.
C2_AmountLeftInRange ==
    \A i \in Ids : 0 <= txs[i].amount_left /\ txs[i].amount_left <= txs[i].amount

\* a debit has committed on a ledger holding a partly used transaction that
\* was then deactivated by the sweeper
C2_Witness ==
    /\ proc[2].pc = "done" /\ proc[2].op = "use" /\ proc[2].ret = "True"
    /\ \E i \in Ids : /\ 0 < txs[i].amount_left
                      /\ txs[i].amount_left < txs[i].amount
                      /\ ~txs[i].is_active

\* C3: an add_credits call made when its non-null hash is already stored
\* returns False and leaves the ledger and the users as they were, with
\* exactly one transaction for that hash.
C3_DuplicateHashRejected ==
    [][(/\ Returns(1, "add")
        /\ proc'[1].hash # NoHash
        /\ \E i \in Ids : txs[i].hash = proc'[1].hash)
       => (/\ proc'[1].ret = "False"
           /\ txs' = txs
           /\ users' = users
           /\ \A a \in Addr : Balance(txs', a) = Balance(txs, a)
           /\ Cardinality({i \in 1..Len(txs') : txs'[i].hash = proc'[1].hash}) = 1)]_vars

\* a second call with a stored hash, for an address that has no user yet and
\* with another status than the stored one, has returned False
C3_Witness ==
    /\ proc[1].pc = "done" /\ proc[1].op = "add" /\ proc[1].ret = "False"
    /\ proc[1].addr \notin users
    /\ \E i \in Ids : txs[i].hash = proc[1].hash /\ txs[i].status # proc[1].status

\* C4: get_balance returns the sum of amount_left over the address's active,
\* completed transactions, and 0 without error for an address with no user.
C4_BalanceIsLedgerSum ==
    [][\A p \in Procs :
         Returns(p, "balance")
         => (/\ proc'[p].ret = "value"
             /\ proc'[p].val = Balance(txs, proc'[p].addr)
             /\ (proc'[p].addr \notin users => proc'[p].val = 0))]_vars

\* a balance was returned that leaves out a pending transaction and counts a
\* partly used one
C4_Witness ==
    /\ proc[2].pc = "done" /\ proc[2].op = "balance" /\ proc[2].val > 0
    /\ \E i \in Ids : txs[i].address = proc[2].addr /\ txs[i].status = "pending"
    /\ \E i \in Ids : Usable(txs, proc[2].addr, i) /\ 0 < txs[i].amount_left
                      /\ txs[i].amount_left < txs[i].amount

\* C5: a use_credits call decrements a transaction only if every other
\* active, completed transaction of the address with a strictly earlier
\* expired_at (a date before another date, any date before none) is at 0
\* after the call.
C5_EarliestExpiryFirst ==
    [][Returns(1, "use")
       => \A i, j \in Ids :
            (/\ txs'[i].amount_left < txs[i].amount_left
             /\ i # j
             /\ Usable(txs, txs[i].address, j)
             /\ Earlier(txs, j, i))
            => txs'[j].amount_left = 0]_vars

\* a debit drained a transaction with a date and went on into one of the
\* same address that never expires
C5_Witness ==
    /\ proc[1].pc = "done" /\ proc[1].op = "use" /\ proc[1].ret = "True"
    /\ \E i, j \in Ids :
         /\ Usable(txs, proc[1].addr, i) /\ Usable(txs, proc[1].addr, j)
         /\ j < i
         /\ Earlier(txs, i, j)
         /\ txs[i].amount_left = 0
         /\ txs[j].amount_left < txs[j].amount /\ txs[j].amount_left > 0

\* C6: run alone with amount >= 0, use_credits returns True and lowers the
\* balance by min(amount, balance); when the amount exceeds the balance every
\* active, completed transaction of the address ends at 0.
C6_DebitIsMinOfAmountAndBalance ==
    [][(Returns(1, "use") /\ proc'[1].amount >= 0)
       => LET a == proc'[1].addr
              x == proc'[1].amount
              b == Balance(txs, a)
          IN /\ proc'[1].ret = "True"
             /\ Balance(txs', a) = b - (IF x <= b THEN x ELSE b)
             /\ (x > b => /\ Balance(txs', a) = 0
                          /\ \A i \in Ids : Usable(txs, a, i) => txs'[i].amount_left = 0)]_vars

\* a debit larger than the balance drained two transactions and returned True
C6_Witness ==
    /\ proc[1].pc = "done" /\ proc[1].op = "use" /\ proc[1].ret = "True"
    /\ proc[1].val > 0
    /\ Cardinality({i \in Ids : Usable(txs, proc[1].addr, i) /\ txs[i].amount > 0
                                /\ txs[i].amount_left = 0}) >= 2

\* the credits the events of the chains are worth to an address
EventCredits(a) ==
    SumOver([k \in 1..Len(BaseLog) |-> (BaseLog[k].value * 100) \div 80],
            {k \in 1..Len(BaseLog) : BaseLog[k].sender = a})
    + SumOver([k \in 1..Len(SolanaLog) |-> SolanaLog[k].value],
              {k \in 1..Len(SolanaLog) : SolanaLog[k].user = a /\ ~SolanaLog[k].err})

\* C7: a poll that processes an event whose hash is already stored changes no
\* transaction and no balance; after any step of overlapping polls every event
\* hash has at most one transaction and no address has more balance than its
\* events are worth.
C7_NoDoubleCredit ==
    [][/\ \A p \in Procs :
            (/\ proc[p].ctx \in Chains
             /\ proc[p].pc \in {"add_flush", "add_check", "add_commit"}
             /\ proc'[p] # proc[p]
             /\ \E i \in Ids : txs[i].hash = proc[p].hash)
            => (/\ txs' = txs
                /\ \A a \in Addr : get_balance(users', txs', a) = get_balance(users, txs, a))
       /\ \A i, j \in 1..Len(txs') : txs'[i].hash = txs'[j].hash => i = j
       /\ \A a \in Addr : get_balance(users', txs', a) <= EventCredits(a)
      ]_vars

\* two polls overlapped on an event: one stored it, add_credits of the other
\* found the hash and returned False
C7_Witness ==
    \E p \in Procs :
       /\ proc[p].pc = "polled" /\ proc[p].ret = "False"
       /\ Cardinality({i \in Ids : txs[i].hash = proc[p].hash}) = 1
       /\ get_balance(users, txs, "A") = EventCredits("A")

HookReturns(p) == proc[p].pc # "done" /\ proc'[p].pc = "done" /\ proc'[p].ctx = "hook"

\* C8: a PENDING delivery for a hash that is not stored adds one transaction
\* with status pending and leaves every get_balance as it was; a COMPLETED
\* delivery that finds the stored pending transaction sets that transaction to
\* completed, adds no transaction, and get_balance of its owner rises by its
\* amount.
C8_PendingThenCompleted ==
    [][\A p \in Procs :
         /\ (/\ HookReturns(p)
             /\ proc[p].hook = "PENDING" /\ proc[p].id = 0 /\ proc'[p].ret = "True")
            => (/\ Len(txs') = Len(txs) + 1
                /\ txs'[Len(txs')].hash = proc[p].hash
                /\ txs'[Len(txs')].status = "pending"
                /\ \A i \in Ids : txs'[i] = txs[i]
                /\ \A a \in Addr : get_balance(users', txs', a) = get_balance(users, txs, a))
         /\ (/\ HookReturns(p)
             /\ proc[p].hook = "COMPLETED" /\ proc[p].id # 0
             /\ txs[proc[p].id].status = "pending")
            => (/\ Len(txs') = Len(txs)
                /\ txs'[proc[p].id] = [txs[proc[p].id] EXCEPT !.status = "completed"]
                /\ \A i \in Ids \ {proc[p].id} : txs'[i] = txs[i]
                /\ get_balance(users', txs', proc[p].addr)
                     = get_balance(users, txs, proc[p].addr) + txs[proc[p].id].amount)
      ]_vars

\* the PENDING delivery that stored the transaction and the COMPLETED delivery
\* that found it stored have both been answered, and the transaction counts
C8_Witness ==
    \E p, q \in Procs :
       /\ proc[q].pc = "done" /\ proc[q].ctx = "hook" /\ proc[q].hook = "PENDING"
       /\ proc[q].id = 0 /\ proc[q].ret = "True"
       /\ proc[p].pc = "done" /\ proc[p].ctx = "hook" /\ proc[p].hook = "COMPLETED"
       /\ proc[p].id # 0 /\ proc[p].ret = "True" /\ proc[p].hash = proc[q].hash
       /\ txs[proc[p].id].status = "completed"
       /\ get_balance(users, txs, proc[p].addr) = txs[proc[p].id].amount

\* C9: a thirdweb transaction is completed only if a delivery with status
\* COMPLETED was accepted for its hash.
C9_CompletedOnlyAfterCompletedDelivery ==
    \A i \in Ids :
       (txs[i].provider = "thirdweb" /\ txs[i].status = "completed")
       => txs[i].hash \in hist.completed

\* C10: whatever deliveries arrive and however their handlers interleave, a
\* hash has at most one transaction and an address's get_balance is at most
\* the sum of the amounts of the payments made to it.
C10_OneTransactionPerHash ==
    /\ \A h \in Hashes : Cardinality({i \in Ids : txs[i].hash = h}) <= 1
    /\ \A a \in Addr :
         get_balance(users, txs, a)
           <= SumOver([h \in Hashes |-> HookAmount(h)], {h \in Hashes : HookSender(h) = a})

\* two deliveries of one hash, made by a user who has a transaction already,
\* were handled at once: neither found the hash stored, one stored it and the
\* INSERT of the other was refused
C10_Witness ==
    \E p, q \in Procs :
       /\ proc[p].pc = "done" /\ proc[p].ctx = "hook" /\ proc[p].id = 0
       /\ proc[p].ret = "True"
       /\ proc[q].pc = "done" /\ proc[q].ctx = "hook" /\ proc[q].id = 0
       /\ proc[q].ret = "raise" /\ proc[q].hash = proc[p].hash
       /\ Len(txs) = 2 /\ txs[2].hash = proc[p].hash /\ txs[1].hash # proc[p].hash

\* a delivery without signature or with another one than the HMAC of its
\* timestamp and body, without timestamp or with one that is no integer, or
\* with a timestamp more than 300 s old or more than 30 s ahead
FailsVerification(w) ==
    \/ w.signature \in {"missing", "wrong"}
    \/ w.timestamp.kind \in {"missing", "text"}
    \/ w.timestamp.age > 300
    \/ w.timestamp.age < -30

\* C11: the handler of a delivery that fails verification answers 401 in its
\* first step, makes no call into the ledger and leaves users and
\* transactions as they were.
C11_UnverifiedRejected ==
    [][\A p \in Procs, w \in Deliveries :
         (HookStart(p, w) /\ FailsVerification(w))
         => (/\ proc'[p].pc = "done" /\ proc'[p].op = "hook" /\ proc'[p].ret = "401"
             /\ proc'[p].ctx = "top"
             /\ txs' = txs /\ users' = users)]_vars

\* a delivery was answered 401 while the ledger holds a pending transaction
\* that a verified delivery would have completed
C11_Witness ==
    \E p \in Procs :
       /\ proc[p].pc = "done" /\ proc[p].op = "hook" /\ proc[p].ret = "401"
       /\ \E i \in Ids : txs[i].status = "pending"

\* the active transactions with an expiration before t
Overdue(rows, t) ==
    {i \in 1..Len(rows) :
        rows[i].is_active = TRUE /\ rows[i].expired_at # NullInt /\ rows[i].expired_at < t}

\* C12: a sweep selects the active transactions whose expiration is before the
\* time of its query; when it returns, these are inactive and out of
\* get_balance, every other transaction is as it was, and the count and the
\* identifiers reported are those of the transactions it deactivated.  A sweep
\* that selects none reports 0 and changes nothing.
C12_SweepDeactivatesExpired ==
    [][\A p \in Procs :
         /\ (proc[p].pc = "idle" /\ proc'[p].op = "sweep")
            => (/\ proc'[p].ids = Overdue(txs, now)
                /\ txs' = txs
                /\ proc'[p].pc = "done" <=> Overdue(txs, now) = {}
                /\ proc'[p].pc = "done" => proc'[p].val = 0)
         /\ (proc[p].pc = "sweep_commit" /\ proc'[p].pc = "done")
            => (/\ Len(txs') = Len(txs)
                /\ \A i \in Ids :
                     /\ i \in proc[p].ids => ~txs'[i].is_active
                     /\ i \notin proc[p].ids => txs'[i] = txs[i]
                     /\ (txs[i].expired_at = NullInt \/ txs[i].expired_at >= now)
                        => txs'[i].is_active = txs[i].is_active
                     /\ txs'[i] = [txs[i] EXCEPT !.is_active = txs'[i].is_active]
                /\ proc'[p].ids = {i \in Ids : txs[i].is_active /\ ~txs'[i].is_active}
                /\ proc'[p].val = Cardinality(proc'[p].ids)
                /\ \A a \in Addr :
                     get_balance(users', txs', a)
                       = SumOver([i \in Ids |-> txs[i].amount_left],
                                 {i \in Ids : Usable(txs, a, i) /\ i \notin proc[p].ids}))
      ]_vars

\* a sweep deactivated one transaction that still had credits and left an
\* active one without expiration
C12_Witness ==
    /\ proc[1].pc = "done" /\ proc[1].op = "sweep" /\ proc[1].val = 1
    /\ \E i \in proc[1].ids : ~txs[i].is_active /\ txs[i].amount_left > 0 /\ txs[i].expired_at < now
    /\ \E i \in Ids : txs[i].is_active /\ txs[i].expired_at = NullInt
    /\ get_balance(users, txs, "A") > 0

\* C13: get_balance returns the sum of amount_left over the transactions of
\* the address that are active, completed and not expired at the time of the
\* call, and changes nothing.  A transaction whose expired_at is that very
\* time is taken as not expired here, the reading most lenient to the code.
C13_BalanceExcludesExpired ==
    [][\A p \in Procs :
         Returns(p, "balance")
         => (/\ txs' = txs /\ users' = users
             /\ proc'[p].val
                  = SumOver([i \in Ids |-> txs[i].amount_left],
                            {i \in Ids : /\ Usable(txs, proc'[p].addr, i)
                                         /\ (txs[i].expired_at = NullInt
                                             \/ txs[i].expired_at >= now)}))]_vars

C15_AddAllOrNothing ==
    [][\A p \in Procs :
         (/\ proc[p].pc \in {"add_flush", "add_check", "add_commit"}
          /\ proc'[p] # proc[p]
          /\ ~(proc'[p].pc = "done" /\ proc'[p].ret = "True"))
         => (/\ txs' = txs
             /\ users' = users
             /\ proc'[p].pc = "done" => proc'[p].ret \in {"False", "raise"})]_vars

\* the INSERT of the transaction of a call for an unknown address was refused
\* after the user had been flushed, and the address is still unknown
C15_Witness ==
    /\ proc[1].pc = "done" /\ proc[1].op = "add" /\ proc[1].ret = "raise"
    /\ proc[1].addr \notin users
    /\ Len(txs) > 0

\* C16: an add_credits call that passed the duplicate guard and whose hash
\* has been stored by another call before its own INSERT stores nothing and
\* returns False to its caller.
C16_RaceLoserReportsDuplicate ==
    [][\A p \in Procs :
         (/\ proc[p].pc = "add_commit"
          /\ proc'[p] # proc[p]
          /\ proc[p].hash # NoHash
          /\ \E i \in Ids : txs[i].hash = proc[p].hash)
         => (/\ txs' = txs
             /\ users' = users
             /\ proc'[p].ret = "False")]_vars

\* C17: after every step no two transactions have the same non-null hash; an
\* add_credits call without hash whose amount is not negative returns True and
\* stores its transaction, whatever transactions without hash are stored.
C17_HashUniqueNullsCoexist ==
    [][/\ \A i, j \in 1..Len(txs') :
            (txs'[i].hash = txs'[j].hash /\ txs'[i].hash # NoHash) => i = j
       /\ \A p \in Procs :
            (/\ Returns(p, "add")
             /\ proc'[p].hash = NoHash
             /\ proc'[p].amount >= 0)
            => (/\ proc'[p].ret = "True"
                /\ txs' = Append(txs, txs'[Len(txs')])
                /\ txs'[Len(txs')].hash = NoHash)
      ]_vars

\* a call without hash has stored its transaction beside another one without
\* hash
C17_Witness ==
    /\ proc[1].pc = "done" /\ proc[1].op = "add" /\ proc[1].ret = "True"
    /\ proc[1].hash = NoHash
    /\ Cardinality({i \in Ids : txs[i].hash = NoHash}) >= 2

\* C18: update_transaction_status(h, s) on a stored hash returns True and
\* changes nothing but the status of that transaction, which becomes s, so a
\* call on a transaction that has status s already changes nothing; on a hash
\* that is not stored it returns False and changes nothing.
C18_StatusUpdateIdempotent ==
    [][\A p \in Procs :
         Returns(p, "status")
         => LET h == proc'[p].hash
                s == proc'[p].status
            IN /\ users' = users
               /\ IF \E i \in Ids : txs[i].hash = h
                  THEN /\ proc'[p].ret = "True"
                       /\ Len(txs') = Len(txs)
                       /\ \A i \in Ids :
                            txs'[i] = IF txs[i].hash = h
                                      THEN [txs[i] EXCEPT !.status = s] ELSE txs[i]
                       /\ (\A i \in Ids : txs[i].hash = h => txs[i].status = s) => txs' = txs
                  ELSE proc'[p].ret = "False" /\ txs' = txs]_vars

\* a call has returned True on a transaction that is partly or wholly spent
\* and has the status of the call
C18_Witness ==
    /\ proc[1].pc = "done" /\ proc[1].op = "status" /\ proc[1].ret = "True"
    /\ \E i \in Ids : /\ txs[i].hash = proc[1].hash
                      /\ txs[i].status = proc[1].status
                      /\ txs[i].amount_left < txs[i].amount

\* C19: change_voucher_expiration_date(id, d) returns True and changes
\* nothing but expired_at of transaction id, which becomes d, when id names an
\* active transaction of provider voucher; otherwise it returns False and
\* changes nothing.
C19_VoucherExpirationChange ==
    [][\A p \in Procs :
         Returns(p, "voucher")
         => LET id == proc'[p].id
                d == proc'[p].exp
            IN /\ users' = users
               /\ IF id \in Ids /\ txs[id].is_active = TRUE /\ txs[id].provider = "voucher"
                  THEN /\ proc'[p].ret = "True"
                       /\ txs' = [txs EXCEPT ![id].expired_at = d]
                  ELSE proc'[p].ret = "False" /\ txs' = txs]_vars

\* a call on a voucher that the sweeper has deactivated returned False, and
\* the voucher keeps its expiration and its credits
C19_Witness ==
    /\ proc[1].pc = "done" /\ proc[1].op = "voucher" /\ proc[1].ret = "False"
    /\ proc[1].id \in Ids
    /\ txs[proc[1].id].provider = "voucher" /\ ~txs[proc[1].id].is_active
    /\ txs[proc[1].id].amount_left > 0
    /\ \E i \in Ids : txs[i].provider = "thirdweb"

Stored(h) == \E i \in Ids : txs[i].hash = h

\* C20: every payment event of the Base contract and every successful payment
\* of the Solana program that is on its chain is eventually stored in the
\* ledger.
C20_EveryEventRecorded ==
    /\ \A k \in 1..Len(BaseLog) :
         (head["base"] >= BaseLog[k].block) ~> Stored(BaseLog[k].hash)
    /\ \A k \in {j \in 1..Len(SolanaLog) : ~SolanaLog[j].err} :
         (head["solana"] >= SolanaLog[k].slot) ~> Stored(SolanaLog[k].hash)

\* the payment event a hash of the chains stands for: its owner, the amount
\* handed to add_credits, its provider and its status
PolledInput(h) ==
    IF \E k \in 1..Len(BaseLog) : BaseLog[k].hash = h
    THEN LET e == BaseLog[CHOOSE k \in 1..Len(BaseLog) : BaseLog[k].hash = h]
         IN [addr |-> e.sender, amount |-> e.value, provider |-> "libertai",
             status |-> "completed"]
    ELSE LET e == SolanaLog[CHOOSE k \in 1..Len(SolanaLog) : SolanaLog[k].hash = h]
         IN [addr |-> e.user, amount |-> e.value,
             provider |-> IF e.event_type = "token_payment" THEN "ltai_solana"
                          ELSE "sol_solana",
             status |-> IF e.err THEN "error" ELSE "completed"]

\* C21: an add_credits call that succeeds inserts exactly one transaction,
\* with amount = amount_left = the input amount (100/80 of it for the
\* native-token provider), is_active true and the given status; when the
\* status is completed the balance of the address rises by exactly that
\* amount, and otherwise it does not change.
C21_AddInsertsOneTransaction ==
    [][\A p \in Procs :
         (proc[p].pc = "add_commit" /\ proc'[p].pc # "add_commit" /\ proc'[p].ret = "True")
         => LET in == PolledInput(proc[p].hash)
                credited == IF in.provider = "libertai" THEN (in.amount * 100) \div 80
                            ELSE in.amount
                r == txs'[Len(txs')]
            IN /\ Len(txs') = Len(txs) + 1
               /\ SubSeq(txs', 1, Len(txs)) = txs
               /\ r.hash = proc[p].hash /\ r.address = in.addr
               /\ r.provider = in.provider
               /\ r.amount = credited /\ r.amount_left = credited
               /\ r.is_active = TRUE /\ r.status = in.status
               /\ get_balance(users', txs', in.addr)
                    = get_balance(users, txs, in.addr)
                      + (IF in.status = "completed" THEN credited ELSE 0)]_vars

\* the Base payment worth 4 was stored as 5 credits and is the balance of its
\* sender, and a Solana payment was stored with its amount as it is
C21_Witness ==
    /\ \E i \in Ids : /\ txs[i].hash = "b1" /\ txs[i].amount = 5
                       /\ txs[i].amount_left = 5 /\ txs[i].status = "completed"
    /\ \E i \in Ids : txs[i].provider \in SolanaProviders /\ txs[i].amount = txs[i].amount_left
    /\ \E p \in Procs : /\ proc[p].pc = "polled" /\ proc[p].ret = "True"
                         /\ proc[p].hash = "b1"
                         /\ get_balance(users, txs, "A") >= 5

\* worker p runs a poll cycle of chain c that has not returned
Polling(p, c) == proc[p].ctx = c /\ proc[p].pc # "done"

\* worker p begins a poll of chain c in this step
Fires(p, c) == proc[p].pc = "idle" /\ proc'[p].pc # "idle" /\ proc'[p].op = c

\* C22: for each chain, an invocation of the poller that fires while a poll
\* of the same chain is in flight returns at once with an empty list, without
\* waiting for the lock and without fetching or writing anything.
C22_SkipsWhenAPollIsInFlight ==
    [][\A p \in Procs, c \in Chains :
         (Fires(p, c) /\ \E q \in Procs : Polling(q, c))
         => /\ proc'[p].pc = "done" /\ proc'[p].ret = "ok"
            /\ proc'[p].out = <<>> /\ proc'[p].held = {}]_vars

\* C23: the polls of the two chains are independent: a poller tests and
\* takes the lock of its own chain only, so a poll of one chain never holds
\* the lock a poll of the other chain would test or take.
C23_PollersUseTheirOwnLock ==
    \A p \in Procs, c \in Chains : Polling(p, c) => proc[p].held \subseteq {c}

\* C24: a poller holds the lock of its chain for the whole cycle: when an
\* event of a cycle is being ingested by add_credits, the lock of the chain
\* of that cycle is held.
C24_LockHeldWhileIngesting ==
    \A p \in Adding, c \in Chains : proc[p].ctx = c => Locked(p, c)

\* the providers whose transactions give the resume point of a chain
Ingests(c) == IF c = "base" THEN {"libertai"} ELSE SolanaProviders

\* the poll of chain c that worker p runs or begins ends in this step because
\* a request to the node or to the price service failed
Aborts(p, c) ==
    /\ proc[p].pc \in {"idle", "loop"} /\ proc'[p].pc = "done"
    /\ proc'[p].op = c /\ proc'[p].ret \in {"500", PollingError}

\* C25: a poll cycle that aborts because a request to the node or to the
\* price service fails has released its lock and has committed nothing: none
\* of the events it handled is in the ledger and the resume point is the one
\* the cycle started from; the worker then becomes free, with no lock held,
\* for the next invocation.
C25_AbortCommitsNothing ==
    /\ [][\A c \in Chains :
            Aborts(1, c)
            => /\ proc'[1].held = {}
               /\ \A k \in 1..Len(proc[1].out) : ~Stored(proc[1].out[k])'
               /\ LastBlock(txs', Ingests(c))
                    = (IF proc[1].pc = "idle" THEN LastBlock(txs, Ingests(c))
                       ELSE proc[1].cursor)]_vars
    /\ \A c \in Chains :
         (proc[1].pc = "done" /\ proc[1].op = c /\ proc[1].ret \in {"500", PollingError})
         ~> (proc[1].pc = "idle" /\ proc[1].held = {})

\* C26: in a Base poll cycle an exception while one event is handled, the
\* first included, does not abort the batch: the cycle goes on with the
\* events it fetched one after the other and returns normally after the last.
C26_BaseFailureDoesNotAbort ==
    [][\A p \in Procs :
         (proc[p].ctx = "base" /\ proc[p].pc \in {"loop", "polled"} /\ proc'[p] # proc[p])
         => \/ /\ proc'[p].ctx = "base"
               /\ proc'[p].events \in {proc[p].events, Tail(proc[p].events)}
            \/ /\ proc'[p].pc = "done" /\ proc'[p].ret = "ok"
               /\ Tail(proc[p].events) = <<>>]_vars

\* C27: the cursor never passes an event that is not in the ledger: between
\* the poll cycles of a worker, every event on a chain that has no
\* transaction lies after the highest block or slot stored for its chain, the
\* point the next cycle resumes from.
C27_CursorNeverSkips ==
    proc[1].pc = "idle"
    => /\ \A k \in 1..Len(BaseLog) :
            (BaseLog[k].block <= head["base"] /\ ~Stored(BaseLog[k].hash))
            => LastBlock(txs, Ingests("base")) < BaseLog[k].block
       /\ \A k \in 1..Len(SolanaLog) :
            (SolanaLog[k].slot <= head["solana"] /\ ~Stored(SolanaLog[k].hash))
            => LastBlock(txs, Ingests("solana")) < SolanaLog[k].slot

\* the events of chain c that are on the chain at block or slot b
EventsAt(c, b) ==
    IF c = "base"
    THEN {BaseLog[k].hash : k \in {j \in 1..Len(BaseLog) :
                                      BaseLog[j].block = b /\ b <= head["base"]}}
    ELSE {SolanaLog[k].hash : k \in {j \in 1..Len(SolanaLog) :
                                        SolanaLog[j].slot = b /\ b <= head["solana"]
                                        /\ ~Stored(SolanaLog[j].hash)}}

\* C28: when the ledger holds a transaction of the provider, the next poll
\* starts scanning at or below the highest block_number recorded: the events
\* of that block (on Solana those not stored yet) are among the events the
\* poll fetches.
C28_ScanStartsAtOrBelowCursor ==
    [][\A p \in Procs, c \in Chains :
         (/\ Fires(p, c) /\ proc'[p].ret \notin {"500", PollingError}
          /\ LastBlock(txs, Ingests(c)) > 0)
         => \A h \in EventsAt(c, LastBlock(txs, Ingests(c))) :
              \E k \in 1..Len(proc'[p].events) : proc'[p].events[k].hash = h]_vars

\* the block or the slot of an event of a poll cycle
Height(e) == IF "block" \in DOMAIN e THEN e.block ELSE e.slot

\* the block or the slot of the event with hash h
HeightOf(h) ==
    IF \E k \in 1..Len(BaseLog) : BaseLog[k].hash = h
    THEN BaseLog[CHOOSE k \in 1..Len(BaseLog) : BaseLog[k].hash = h].block
    ELSE SolanaLog[CHOOSE k \in 1..Len(SolanaLog) : SolanaLog[k].hash = h].slot

\* C29: within one poll cycle the events are passed to add_credits in
\* ascending block or slot order: the events still to handle are in ascending
\* order and none is below an event the cycle has handled; and a transaction
\* the cycle commits is not below a transaction of an event it handled
\* before.
C29_AscendingWithinACycle ==
    [][\A p \in Procs, c \in Chains :
         Polling(p, c)'
         => LET me == proc'[p]
            IN /\ \A i, j \in 1..Len(me.events) :
                    i < j => Height(me.events[i]) <= Height(me.events[j])
               /\ \A k \in 1..Len(me.out), i \in 1..Len(me.events) :
                    HeightOf(me.out[k]) <= Height(me.events[i])
               /\ (proc[p].pc = "add_commit" /\ me.pc = "polled" /\ me.ret = "True")
                  => /\ txs'[Len(txs')].block_number = Height(Head(me.events))
                     /\ \A k \in 1..Len(me.out), i \in 1..Len(txs) :
                          txs[i].hash = me.out[k]
                          => txs[i].block_number <= txs'[Len(txs')].block_number]_vars

\* a Solana cycle that fetched both signatures has committed the one of slot
\* 1 and then the one of slot 2
C29_Witness ==
    \E p \in Procs :
       /\ proc[p].ctx = "solana" /\ proc[p].pc = "polled" /\ proc[p].ret = "True"
       /\ proc[p].out = <<"s1">> /\ proc[p].hash = "s2"
       /\ Len(txs) = 2 /\ txs[1].hash = "s1" /\ txs[2].hash = "s2"
       /\ txs[1].block_number < txs[2].block_number

\* C30: the list a poll cycle returns holds the hash of every event it
\* processed successfully, each once, and nothing for an event whose handling
\* raised: the list grows only by the hash of the event in hand, when its
\* add_credits call has returned without raising and the hash is not listed
\* yet, and it grows whenever that call has returned.
C30_ReturnedHashes ==
    [][\A p \in Procs, c \in Chains :
         (Polling(p, c) /\ proc'[p] # proc[p])
         => LET me == proc[p]
                h == Head(me.events).hash
                handled == me.pc = "polled" /\ me.ret # "raise"
            IN /\ proc'[p].out # me.out
                  => /\ handled
                     /\ proc'[p].out = Append(me.out, h)
                     /\ \A k \in 1..Len(me.out) : me.out[k] # h
               /\ handled => proc'[p].out = Append(me.out, h)]_vars

\* C31: the sweeper is safe under every interleaving with use_credits: a
\* sweep writes is_active of the transactions it found and nothing else, and
\* a debit that commits, whether or not a sweep has deactivated a transaction
\* it loaded, leaves is_active alone, keeps 0 <= amount_left <= amount and
\* takes from the loaded transactions exactly min(amount, what they hold).
C31_SweepSafeWithDebits ==
    [][/\ (proc[1].pc = "sweep_commit" /\ proc'[1].pc # "sweep_commit")
          => /\ Len(txs') = Len(txs)
             /\ \A i \in Ids :
                  txs'[i] = [txs[i] EXCEPT !.is_active = IF i \in proc[1].ids THEN FALSE ELSE @]
       /\ (Returns(2, "use") /\ proc[2].amount >= 0)
          => LET S == DOMAIN proc[2].snap
                 held == SumOver([i \in Ids |-> txs[i].amount_left], S)
                 left == SumOver([i \in Ids |-> txs'[i].amount_left], S)
             IN /\ proc'[2].ret = "True"
                /\ Len(txs') = Len(txs)
                /\ \A i \in Ids : /\ txs'[i].is_active = txs[i].is_active
                                   /\ txs'[i].amount = txs[i].amount
                                   /\ 0 <= txs'[i].amount_left
                                   /\ txs'[i].amount_left <= txs[i].amount_left
                                   /\ txs[i].amount_left <= txs[i].amount
                                   /\ i \notin S => txs'[i] = txs[i]
                /\ held - left = Min(proc[2].amount, held)]_vars

\* a debit has loaded a transaction and, before it commits, a sweep has
\* deactivated that transaction
C31_Witness ==
    /\ proc[2].pc = "use_commit" /\ proc[2].amount > 0
    /\ \E i \in DOMAIN proc[2].snap : ~txs[i].is_active /\ txs[i].amount_left > 0
    /\ proc[1].pc = "done" /\ proc[1].op = "sweep" /\ proc[1].val >= 1

\* C32: add_credits calls that carry different hashes, or none, never
\* conflict: a call whose hash is not stored and not carried by another call
\* in flight returns True and its transaction is stored, also when the
\* address has no user yet and another call is creating it.
C32_DistinctAddsNeverConflict ==
    [][\A p \in Procs :
         (/\ p \in Adding /\ proc'[p].pc \notin {"add_flush", "add_check", "add_commit"}
          /\ ~HashExists(txs, proc[p].hash)
          /\ \A q \in Adding \ {p} : proc[q].hash # proc[p].hash)
         => /\ proc'[p].ret = "True"
            /\ Len(txs') = Len(txs) + 1
            /\ txs'[Len(txs')].hash = proc[p].hash]_vars

\* C33: a verified delivery reaches the ledger only if it is an on-chain
\* transaction webhook, its receiver is the payment processor, it has a
\* transaction on Base (8453) and its destination token is USDC on chain
\* 8453; a verified delivery that fails one of these is answered without an
\* error and changes nothing, and the ledger changes only in handlers of
\* deliveries that passed.
C33_OnlyFilteredDeliveriesReachLedger ==
    [][/\ \A p \in Procs, w \in Deliveries :
            (HookStart(p, w) /\ Verified(w))
            => IF /\ w.type = "pay.onchain-transaction" /\ w.receiver = "processor"
                  /\ w.txChain = 8453 /\ w.symbol = "USDC" /\ w.tokenChain = 8453
               THEN proc'[p].pc = "call" /\ proc'[p].hash = w.hash
               ELSE /\ proc'[p].pc = "done" /\ proc'[p].ret = "ignored"
                    /\ txs' = txs /\ users' = users
       /\ (txs' # txs \/ users' # users)
          => \E p \in Procs : proc[p].ctx = "hook" /\ proc[p].pc \notin {"idle", "done"}]_vars

\* a verified delivery that failed a filter was ignored while the payment of
\* a delivery that passed the filters is in the ledger
C33_Witness ==
    /\ \E p \in Procs : proc[p].pc = "done" /\ proc[p].op = "hook" /\ proc[p].ret = "ignored"
    /\ Len(txs) = 1 /\ txs[1].provider = "thirdweb"

\* C34: a Base poll fetches the events of the blocks from
\* max(head - 1000, highest recorded block_number + 1) on, so with an empty
\* ledger it scans from the head minus 1000 blocks and not from the first
\* block, and no poll fetches an event older than head - 1000.
C34_WindowStartsWithinMargin ==
    [][\A p \in Procs :
         (Fires(p, "base") /\ proc'[p].ret # "500")
         => LET last == LastBlock(txs, {"libertai"})
                from == IF head["base"] - 1000 >= last + 1 THEN head["base"] - 1000
                        ELSE last + 1
                fetched == {proc'[p].events[k].hash : k \in 1..Len(proc'[p].events)}
            IN /\ fetched = {BaseLog[k].hash : k \in {j \in 1..Len(BaseLog) :
                                                         BaseLog[j].block >= from}}
               /\ \A k \in 1..Len(proc'[p].events) :
                    proc'[p].events[k].block >= head["base"] - 1000]_vars

\* with an empty ledger and the head 1002 blocks up, a poll has fetched the
\* event of block 2 and not the one of block 1
C34_Witness ==
    /\ txs = <<>> /\ head["base"] = 1002
    /\ \E p \in Procs : /\ proc[p].ctx = "base" /\ proc[p].pc = "loop"
                         /\ Len(proc[p].events) = 1 /\ proc[p].events[1].hash = "b2"

\* C35: is_active is monotone: a transaction that is inactive stays in the
\* ledger inactive after every step of the sweeper, use_credits,
\* update_transaction_status, change_voucher_expiration_date and add_credits,
\* and is not counted in the balance again, also when a later expiration date
\* is requested for it.
C35_InactiveStaysInactive ==
    [][\A i \in Ids :
         ~txs[i].is_active
         => /\ i <= Len(txs')
            /\ ~txs'[i].is_active
            /\ i \notin Eligible(txs', txs[i].address)]_vars

\* a later expiration date was requested for a voucher that was debited and
\* then deactivated by the sweeper: the request returned False and the
\* voucher is inactive
C35_Witness ==
    /\ proc[1].pc = "done" /\ proc[1].op = "voucher" /\ proc[1].ret = "False"
    /\ proc[1].id \in Ids
    /\ ~txs[proc[1].id].is_active
    /\ txs[proc[1].id].expired_at < proc[1].exp
    /\ txs[proc[1].id].amount_left < txs[proc[1].id].amount

\* C36: the amount of a transaction never changes after its creation and,
\* the requested amounts being non-negative, its amount_left never
\* increases.
C36_AmountLeftNeverIncreases ==
    [][\A i \in Ids :
         /\ i <= Len(txs')
         /\ txs'[i].amount = txs[i].amount
         /\ txs'[i].amount_left <= txs[i].amount_left]_vars

\* C37: status completed is absorbing: a transaction that is completed is
\* still in the ledger and completed after every step of the webhook
\* deliveries, whatever their statuses and their order.
C37_CompletedIsAbsorbing ==
    [][\A i \in Ids :
         txs[i].status = "completed"
         => i <= Len(txs') /\ txs'[i].status = "completed"]_vars

\* a PENDING delivery has updated the transaction that the COMPLETED delivery
\* of the other worker had just stored as completed, and it is completed
C37_Witness ==
    \E p, q \in Procs :
       /\ proc[q].pc = "done" /\ proc[q].op = "add" /\ proc[q].ret = "True"
       /\ proc[q].hook = "COMPLETED"
       /\ proc[p].pc = "done" /\ proc[p].op = "status" /\ proc[p].ret = "True"
       /\ proc[p].hook = "PENDING" /\ proc[p].hash = proc[q].hash
       /\ \E i \in Ids : txs[i].hash = proc[p].hash /\ txs[i].status = "completed"

\* the signatures of the Solana payments that failed on the chain
FailedOnChain == {SolanaLog[k].hash : k \in {j \in 1..Len(SolanaLog) : SolanaLog[j].err}}

\* C38: a Solana transaction that failed on the chain and carries a payment
\* event is recorded with status error: after every step its transaction has
\* status error, is in no balance and has lost nothing to a debit, the
\* balance answered for its user does not count it, there is one transaction
\* for its signature and no later poll takes the signature as new.
C38_FailedPaymentNeverCredited ==
    [][/\ \A i \in 1..Len(txs') :
            txs'[i].hash \in FailedOnChain
            => /\ txs'[i].status = "error"
               /\ txs'[i].amount_left = txs'[i].amount
               /\ i \notin Eligible(txs', txs'[i].address)
               /\ \A j \in 1..Len(txs') : txs'[j].hash = txs'[i].hash => j = i
       /\ Returns(2, "balance") => proc'[2].val = Balance(txs, proc'[2].addr)
       /\ Fires(1, "solana")
          => \A k \in 1..Len(proc'[1].events) : ~Stored(proc'[1].events[k].hash)]_vars

\* the failed payment of B is stored with status error and whole, a later
\* poll has found nothing new, and a balance request that found the user the
\* payment created is about to sum a balance of 0
C38_Witness ==
    /\ \E i \in Ids : /\ txs[i].hash = "s2" /\ txs[i].status = "error"
                       /\ txs[i].address = "B" /\ txs[i].amount_left = txs[i].amount
    /\ proc[2].pc = "balance_sum" /\ proc[2].addr = "B"
    /\ credit_balance(txs, "B") = 0
    /\ proc[1].pc = "done" /\ proc[1].op = "solana" /\ proc[1].ret = "ok"
    /\ proc[1].out = <<>>

====
